---- MODULE Spec2Model ----
(***************************************************************************)
(* A model of the shakti storage engine of pranadb (shakti/shakti.go):     *)
(* write admission with the dedup cache, memtable rotation, the flush      *)
(* queue with its registration loop and parallel uploads, the periodic     *)
(* rotation timer, and range iterators over memtables and SSTables.        *)
(***************************************************************************)
EXTENDS Integers, Sequences, FiniteSets, TLC

(***************************************************************************)
(* Bounds of the model.                                                    *)
(***************************************************************************)
\* number of memtable rotations explored (memtables are numbered 1, 2, ...)
MaxRotations == 4
\* conf.MemtableFlushQueueMaxSize: capacity of mtFlushChan
MemtableFlushQueueMaxSize == 2

\* conf.MemtableMaxSizeBytes, counted in entries: what the arena of one memtable holds
MemtableMaxEntries == 3
\* number of Write calls explored
MaxSubmits == 3
\* the largest batch sequence number submitted
MaxSeq == 2

\* conf.MemTableMaxReplaceTime, in ticks of the monotonic clock
MemTableMaxReplaceTime == 3
\* the last reading of the monotonic clock explored
MaxTime == 5

\* conf.DisableBatchSequenceInsertion
DisableBatchSequenceInsertion == FALSE

\* the nil memtable pointer
NilMt == 0
MtIds == 1..(MaxRotations + 1)

\* the goroutines of the model: the callers of Write and the caller of
\* forceReplaceMemtable
Forcer == "force"
Timer == "timer"
Stopper == "stop"
Writers == {"w1", "w2"}
Readers == {"r1", "r2"}
Threads == Writers \cup Readers \cup {Forcer, Timer, Stopper}
\* the processor ids of the batches
Processors == {1, 2}
\* the sequence numbers of the batches; -1 stands for "do not check"
Seqs == {-1} \cup (1..MaxSeq)

(***************************************************************************)
(* Byte strings: keys, values and 64-bit integers.                         *)
(***************************************************************************)
\* byte k (1 = least significant) of a natural number below 2^31
ByteOf(n, k) == IF k > 4 THEN 0 ELSE (n \div (256 ^ (k - 1))) % 256

\* uint64(n) as 8 bytes, least significant first; a negative int64 converts to its
\* two's complement
Uint64(n) ==
    IF n >= 0 THEN [k \in 1..8 |-> ByteOf(n, k)]
    ELSE [k \in 1..8 |-> 255 - ByteOf(-n - 1, k)]

Reverse(b) == [k \in 1..Len(b) |-> b[Len(b) + 1 - k]]

\* the borrow into byte k of the 64-bit subtraction a - b
RECURSIVE Borrow(_, _, _)
Borrow(a, b, k) ==
    IF k = 1 THEN 0
    ELSE IF a[k - 1] - b[k - 1] - Borrow(a, b, k - 1) < 0 THEN 1 ELSE 0

\* a - b on uint64: the difference modulo 2^64
Sub64(a, b) == [k \in 1..8 |-> (a[k] - b[k] - Borrow(a, b, k) + 256) % 256]

\* a >= b on uint64
GreaterEq64(a, b) == Borrow(a, b, 9) = 0

\* common.AppendUint64ToBufferLE and common.AppendUint64ToBufferBE
AppendUint64ToBufferLE(buf, n) == buf \o Uint64(n)
AppendUint64ToBufferBE(buf, n) == buf \o Reverse(Uint64(n))

\* the nil byte slice: no key, an open end of a range
NilKey == <<>>

\* bytes.Compare(a, b) < 0: the order of the keys
Less(a, b) ==
    \E i \in 1..Len(b) :
        /\ i <= Len(a) + 1
        /\ \A j \in 1..(i - 1) : a[j] = b[j]
        /\ (i = Len(a) + 1 \/ a[i] < b[i])

\* common.IncrementBytesBigEndian: the byte string read as a big-endian number, plus one
RECURSIVE IncrementBytesBigEndian(_)
IncrementBytesBigEndian(b) ==
    IF b = <<>> THEN <<>>
    ELSE LET n == Len(b)
         IN  IF b[n] < 255 THEN [b EXCEPT ![n] = b[n] + 1]
             ELSE IncrementBytesBigEndian(SubSeq(b, 1, n - 1)) \o <<0>>

\* common.ReadUint64FromBufferLE and the conversion int64(...): the 8 bytes read as a
\* two's complement number (of a magnitude below 2^31)
ReadInt64FromBufferLE(b) ==
    IF b[8] >= 128
    THEN 0 - (1 + (255 - b[1]) + (255 - b[2]) * 256 + (255 - b[3]) * 65536
                + (255 - b[4]) * 16777216)
    ELSE b[1] + b[2] * 256 + b[3] * 65536 + b[4] * 16777216

\* cmn.EncodeKeyPrefix(nil, dbID, SystemTableDedupID, 0): the prefix of the dedup rows,
\* which sorts before every user key
EncodeKeyPrefix == <<0>>

\* createDedupKey
createDedupKey(processorID) == AppendUint64ToBufferBE(EncodeKeyPrefix, processorID)

\* the keys of the model: user keys and the dedup rows' keys
UserKeys == {<<1>>, <<1, 2>>, <<2>>}
Keys == UserKeys \cup {createDedupKey(p) : p \in Processors}
\* no entry under a key
NoVal == <<>>

(***************************************************************************)
(* command/parser: ColumnDef.ToColumnType.                                 *)
(***************************************************************************)
\* the largest magnitude of a type parameter in a column definition
MaxParam == 260

\* DefaultFSP: the default fractional seconds precision of a TIMESTAMP
DefaultFSP == 0

\* the types the grammar of ColumnDef.Type accepts
Types == {"VARCHAR", "TINYINT", "INT", "BIGINT", "TIMESTAMP", "DOUBLE", "DECIMAL"}

\* the types found in common.ColumnTypesByType: those without parameters, which
\* are all but the two the switch of ToColumnType handles
ColumnTypesByType == Types \ {"DECIMAL", "TIMESTAMP"}

\* common.ColumnType{}
ZeroColumnType == [type |-> "UNKNOWN", decPrecision |-> 0, decScale |-> 0, fsp |-> 0]

NewDecimalColumnType(precision, scale) ==
    [type |-> "DECIMAL", decPrecision |-> precision, decScale |-> scale, fsp |-> 0]

NewTimestampColumnType(fsp) ==
    [type |-> "TIMESTAMP", decPrecision |-> 0, decScale |-> 0, fsp |-> fsp]

\* Go's conversion int8(n) of an int: the low 8 bits in two's complement
Int8(n) ==
    LET low == n % 256
    IN  IF low >= 128 THEN low - 256 ELSE low

\* no call of ToColumnType has returned
Pending == [err |-> "pending", ct |-> ZeroColumnType]

\* ColumnDef.ToColumnType: the column type and the error ("nil" for none)
ToColumnType(cd) ==
    IF cd.type \in ColumnTypesByType
    THEN IF Len(cd.params) # 0
         THEN [err |-> "", ct |-> ZeroColumnType]
         ELSE [err |-> "nil", ct |-> [ZeroColumnType EXCEPT !.type = cd.type]]
    ELSE IF cd.type = "DECIMAL"
    THEN IF Len(cd.params) # 2
         THEN [err |-> "Expected DECIMAL(precision, scale)", ct |-> ZeroColumnType]
         ELSE LET prec == cd.params[1]
                  scale == cd.params[2]
              IN  IF prec > 65 \/ prec < 1
                  THEN [err |-> "Decimal precision must be > 0 and <= 65",
                        ct |-> ZeroColumnType]
                  ELSE IF scale > 30 \/ scale < 0
                  THEN [err |-> "decimal scale must be >= 0 and <= 30",
                        ct |-> ZeroColumnType]
                  ELSE IF scale > prec
                  THEN [err |-> "Decimal scale must be <= precision",
                        ct |-> ZeroColumnType]
                  ELSE [err |-> "nil", ct |-> NewDecimalColumnType(prec, scale)]
    ELSE IF cd.type = "TIMESTAMP"
    THEN IF Len(cd.params) = 1
         THEN LET fsp == Int8(cd.params[1])
              IN  IF fsp < 0 \/ fsp > 6
                  THEN [err |-> "Timestamp fsp must be >= 0 and <= 6",
                        ct |-> ZeroColumnType]
                  ELSE [err |-> "nil", ct |-> NewTimestampColumnType(fsp)]
         ELSE [err |-> "nil", ct |-> NewTimestampColumnType(Int8(DefaultFSP))]
    ELSE [err |-> "panic", ct |-> ZeroColumnType]

VARIABLES
    started,          \* Shakti.started
    startStopLock,    \* Shakti.startStopLock: the goroutine holding it, or "none"
    now,              \* the monotonic clock read by common.NanoTime
    mtLastReplace,    \* Shakti.mtLastReplace
    mtReplaceTimer,   \* Shakti.mtReplaceTimer: [armed, at]
    timerSaw,         \* history: what maybeReplaceMemtable read when it last chose to rotate
    memtable,         \* Shakti.memtable: the id of the active memtable
    mts,              \* the memtables: per id [data, used, batches]
    lastCommittedBatchSequences, \* the dedup map: processor -> last sequence
    batch,            \* per writer, the WriteBatch of its Write call: [sub, proc, seq, entries]
    subs,             \* history: per Write call [proc, seq, dup, before, full, applied, cb, ret]
    latest,           \* history: per key the value of the newest write applied to a memtable
    mtLockW,          \* Shakti.mtLock: the goroutine holding it exclusively, or "none"
    mtLockR,          \* Shakti.mtLock: the goroutines holding it shared across steps
    mtFlushChan,      \* Shakti.mtFlushChan: the number of buffered signals
    chanClosed,       \* whether mtFlushChan has been closed
    stopWg,           \* Shakti.stopWg: the wait group's counter
    mtFlushQueue,     \* Shakti.mtFlushQueue: sequence of [memtable, ssTabInfo]
    queueCap,         \* cap(Shakti.mtFlushQueue): the size of its backing array
    mtFlushQueueLock, \* Shakti.mtFlushQueueLock: "free", or "loop" while the run loop holds it
    loop,             \* mtFlushRunLoop: [pc, pos, i]
    uploads,          \* per memtable, the goroutine running flushMemtable: [st, aliased]
    registered,       \* the controller: table ids in the order ApplyChanges accepted them
    committed,        \* memtables in the order Committed() was invoked on them
    enqueued,         \* history: memtables in the order they were appended to mtFlushQueue
    signalled,        \* history: memtables in the order their rotation sent its flush signal
    stored,           \* history: memtables in the order their uploads called setSSTableInfo
    iterators,        \* Shakti.iterators: the readers whose shaktiIterator is registered
    its,              \* per reader its shaktiIterator and the locals of NewIterator:
                      \* [rangeStart, rangeEnd, lastKey, srcs, floor, ids, n]
    delivered,        \* history: per reader the entries Current returned
    loadFor,          \* per reader, the processor whose LoadLastBatchSequence it runs, or 0
    loaded,           \* history: [proc, seq, fresh] per sequence LoadLastBatchSequence stored
    pc,               \* per goroutine, its position
    arg,              \* per goroutine, the memtable passed to replaceMemtable
    panicked,         \* a goroutine panicked: the process is dead
    columnDef,        \* parser.ColumnDef: [type, params], the receiver of ToColumnType
    columnType        \* what ToColumnType returned: [err, ct], err "pending" before

vars == <<started, startStopLock, now, mtLastReplace, mtReplaceTimer, timerSaw, memtable, mts, lastCommittedBatchSequences, batch, subs, latest, mtLockW, mtLockR, mtFlushChan, chanClosed, stopWg, mtFlushQueue,
          queueCap, mtFlushQueueLock, loop, uploads, registered, committed, enqueued, signalled,
          stored, iterators, its, delivered, loadFor, loaded, pc, arg, panicked,
          columnDef, columnType>>

(***************************************************************************)
(* NewShakti: the state after construction.                                *)
(***************************************************************************)
InitShakti ==
    /\ started = FALSE
    /\ startStopLock = "none"
    /\ now = 1
    /\ mtLastReplace = 0
    /\ mtReplaceTimer = [armed |-> FALSE, at |-> 0]
    /\ timerSaw = [last |-> 0, now |-> 0]
    /\ memtable = 1
    /\ mts = [m \in MtIds |-> [data |-> [k \in Keys |-> NoVal], used |-> 0, batches |-> <<>>]]
    /\ lastCommittedBatchSequences = [p \in {} |-> 0]
    /\ batch = [w \in Writers |-> [sub |-> 0, proc |-> 0, seq |-> 0, entries |-> <<>>]]
    /\ subs = <<>>
    /\ latest = [k \in Keys |-> NoVal]
    /\ mtLockW = "none"
    /\ mtLockR = {}
    /\ mtFlushChan = 0
    /\ chanClosed = FALSE
    /\ stopWg = 0
    /\ mtFlushQueue = <<>>
    /\ queueCap = 0
    /\ mtFlushQueueLock = "free"
    /\ loop = [pc |-> "off", pos |-> 0, i |-> 0]
    /\ uploads = [m \in MtIds |-> [st |-> "none", aliased |-> FALSE]]
    /\ registered = <<>>
    /\ committed = <<>>
    /\ enqueued = <<>>
    /\ signalled = <<>>
    /\ stored = <<>>
    /\ iterators = {}
    /\ its = [r \in Readers |-> [rangeStart |-> NilKey, rangeEnd |-> NilKey, lastKey |-> NilKey,
                                 srcs |-> <<>>, floor |-> NilKey, ids |-> <<>>, n |-> 0]]
    /\ delivered = [r \in Readers |-> <<>>]
    /\ loadFor = [r \in Readers |-> 0]
    /\ loaded = <<>>
    /\ pc = [t \in Threads |-> "idle"]
    /\ arg = [t \in Threads |-> NilMt]
    /\ panicked = FALSE

\* the engine after construction; no column definition is being converted
Init ==
    /\ InitShakti
    /\ columnDef = [type |-> "UNKNOWN", params |-> <<>>]
    /\ columnType = Pending

\* scheduleMtReplace: time.AfterFunc(conf.MemTableMaxReplaceTime, ...)
ScheduleMtReplace(t) == [armed |-> TRUE, at |-> t + MemTableMaxReplaceTime]

\* Start: launches mtFlushRunLoop and arms the timer
Start ==
    /\ ~panicked
    /\ ~started
    /\ startStopLock = "none"
    /\ loop.pc = "off"
    /\ started' = TRUE
    /\ stopWg' = stopWg + 1
    /\ loop' = [pc |-> "recv", pos |-> 0, i |-> 0]
    /\ mtReplaceTimer' = ScheduleMtReplace(now)
    /\ UNCHANGED <<startStopLock, now, mtLastReplace, timerSaw, memtable, mts,
                   lastCommittedBatchSequences, batch, subs, latest, mtLockW, mtLockR,
                   mtFlushChan, chanClosed, mtFlushQueue, queueCap, mtFlushQueueLock,
                   uploads, registered, committed, enqueued, signalled, stored, iterators,
                   its, delivered, loadFor, loaded, pc, arg, panicked, columnDef,
                   columnType>>

\* Stop on a started engine: under startStopLock the timer is stopped and mtFlushChan
\* is closed
StopClose ==
    /\ ~panicked
    /\ pc[Stopper] = "idle"
    /\ started
    /\ startStopLock = "none"
    /\ startStopLock' = Stopper
    /\ started' = FALSE
    /\ mtReplaceTimer' = [mtReplaceTimer EXCEPT !.armed = FALSE]
    /\ chanClosed' = TRUE
    /\ pc' = [pc EXCEPT ![Stopper] = "wait"]
    /\ UNCHANGED <<now, mtLastReplace, timerSaw, memtable, mts,
                   lastCommittedBatchSequences, batch, subs, latest, mtLockW, mtLockR,
                   mtFlushChan, stopWg, mtFlushQueue, queueCap, mtFlushQueueLock, loop,
                   uploads, registered, committed, enqueued, signalled, stored, iterators,
                   its, delivered, loadFor, loaded, arg, panicked, columnDef, columnType>>

\* Stop: stopWg.Wait() returns once the counter is zero, and Stop returns
StopReturn ==
    /\ ~panicked
    /\ pc[Stopper] = "wait"
    /\ stopWg = 0
    /\ startStopLock' = "none"
    /\ pc' = [pc EXCEPT ![Stopper] = "stopped"]
    /\ UNCHANGED <<started, now, mtLastReplace, mtReplaceTimer, timerSaw, memtable, mts,
                   lastCommittedBatchSequences, batch, subs, latest, mtLockW, mtLockR,
                   mtFlushChan, chanClosed, stopWg, mtFlushQueue, queueCap,
                   mtFlushQueueLock, loop, uploads, registered, committed, enqueued,
                   signalled, stored, iterators, its, delivered, loadFor, loaded, arg,
                   panicked, columnDef, columnType>>

\* the monotonic clock advances
Tick ==
    /\ ~panicked
    /\ now < MaxTime
    /\ now' = now + 1
    /\ UNCHANGED <<started, startStopLock, mtLastReplace, mtReplaceTimer, timerSaw,
                   memtable, mts, lastCommittedBatchSequences, batch, subs, latest,
                   mtLockW, mtLockR, mtFlushChan, chanClosed, stopWg, mtFlushQueue,
                   queueCap, mtFlushQueueLock, loop, uploads, registered, committed,
                   enqueued, signalled, stored, iterators, its, delivered, loadFor,
                   loaded, pc, arg, panicked, columnDef, columnType>>

(***************************************************************************)
(* Rotation: replaceMemtable / replaceMemtable0.                           *)
(***************************************************************************)
\* Go's append: the capacity of the backing array once one more element is appended
AppendCap(len, cap) == IF len < cap THEN cap ELSE IF cap = 0 THEN 1 ELSE 2 * cap

\* the upload goroutines' flushEntry pointers after the queue moved to a new backing array
Detach(ups) == [m \in MtIds |-> [ups[m] EXCEPT !.aliased = FALSE]]

\* an append that puts the memtable at the head of the flush queue
Enqueue_front(q, m) == <<[memtable |-> m, ssTabInfo |-> FALSE]>> \o q

\* the append of replaceMemtable0 to the flush queue
Enqueue(q, m) == Append(q, [memtable |-> m, ssTabInfo |-> FALSE])

\* where a goroutine continues once replaceMemtable has returned nil
AfterReplace(t) == IF t \in Writers THEN "check" ELSE IF t = Timer THEN "resched" ELSE "idle"

\* replaceMemtable: a writer that got "full" takes mtLock
ReplaceLock(t) ==
    /\ ~panicked
    /\ pc[t] = "lock"
    /\ mtLockW = "none" /\ mtLockR = {}
    /\ mtLockW' = t
    /\ pc' = [pc EXCEPT ![t] = "swap"]
    /\ UNCHANGED <<started, startStopLock, now, mtLastReplace, mtReplaceTimer, timerSaw,
                   memtable, mts, lastCommittedBatchSequences, batch, subs, latest,
                   mtLockR, mtFlushChan, chanClosed, stopWg, mtFlushQueue, queueCap,
                   mtFlushQueueLock, loop, uploads, registered, committed, enqueued,
                   signalled, stored, iterators, its, delivered, loadFor, loaded, arg,
                   panicked, columnDef, columnType>>

\* forceReplaceMemtable: takes mtLock and passes the active memtable
ForceLock ==
    /\ ~panicked
    /\ pc[Forcer] = "idle"
    /\ memtable <= MaxRotations
    /\ mtLockW = "none" /\ mtLockR = {}
    /\ mtLockW' = Forcer
    /\ arg' = [arg EXCEPT ![Forcer] = memtable]
    /\ pc' = [pc EXCEPT ![Forcer] = "swap"]
    /\ UNCHANGED <<started, startStopLock, now, mtLastReplace, mtReplaceTimer, timerSaw,
                   memtable, mts, lastCommittedBatchSequences, batch, subs, latest,
                   mtLockR, mtFlushChan, chanClosed, stopWg, mtFlushQueue, queueCap,
                   mtFlushQueueLock, loop, uploads, registered, committed, enqueued,
                   signalled, stored, iterators, its, delivered, loadFor, loaded,
                   panicked, columnDef, columnType>>

\* the start of the memtable iterator that updateIterators gives a live iterator
SpliceStart(rangeStart, lastKey) ==
    IF lastKey # NilKey THEN IncrementBytesBigEndian(lastKey) ELSE rangeStart

\* updateIterators: every registered iterator gets an iterator on the new memtable mt,
\* put before its other sources (MergingIterator.PrependIterator)
updateIterators(is, registry, mt) ==
    [r \in Readers |->
        IF r \in registry
        THEN [is[r] EXCEPT !.srcs = <<[kind |-> "mt", id |-> mt,
                                      start |-> SpliceStart(is[r].rangeStart, is[r].lastKey)]>>
                                    \o is[r].srcs]
        ELSE is[r]]

\* a test that lets every caller rotate
SameMemtable_always(m, active) == TRUE

\* replaceMemtable0: the test that the caller's memtable is still the active one
SameMemtable(m, active) == m = active

\* a rotation that leaves the rotated memtable the active one
NewMemtable_reused(m) == m

\* mem.NewMemtable: the memtable that replaces memtable m
NewMemtable(m) == m + 1

\* replaceMemtable0 up to the append to the flush queue
ReplaceSwap(t) ==
    /\ ~panicked
    /\ pc[t] = "swap"
    /\ mtLockW = t
    /\ IF SameMemtable(arg[t], memtable)
       THEN /\ mtFlushQueueLock = "free"
            /\ memtable' = NewMemtable(memtable)
            /\ its' = updateIterators(its, iterators, NewMemtable(memtable))
            /\ mtFlushQueue' = Enqueue(mtFlushQueue, arg[t])
            /\ queueCap' = AppendCap(Len(mtFlushQueue), queueCap)
            /\ uploads' = IF Len(mtFlushQueue) < queueCap THEN uploads ELSE Detach(uploads)
            /\ enqueued' = Append(enqueued, arg[t])
            /\ pc' = [pc EXCEPT ![t] = "signal"]
            /\ UNCHANGED mtLockW
       ELSE /\ mtLockW' = "none"
            /\ pc' = [pc EXCEPT ![t] = AfterReplace(t)]
            /\ UNCHANGED <<memtable, its, mtFlushQueue, queueCap, uploads, enqueued>>
    /\ UNCHANGED <<started, startStopLock, now, mtLastReplace, mtReplaceTimer, timerSaw,
                   mts, lastCommittedBatchSequences, batch, subs, latest, mtLockR,
                   mtFlushChan, chanClosed, stopWg, mtFlushQueueLock, loop, registered,
                   committed, signalled, stored, iterators, delivered, loadFor, loaded,
                   arg, panicked, columnDef, columnType>>

\* replaceMemtable0: the send on mtFlushChan, which blocks while the channel is full
ReplaceSignal(t) ==
    /\ ~panicked
    /\ pc[t] = "signal"
    /\ mtLockW = t
    /\ IF chanClosed
       THEN /\ panicked' = TRUE
            /\ UNCHANGED <<mtFlushChan, signalled, mtLastReplace, mtLockW, pc>>
       ELSE /\ mtFlushChan < MemtableFlushQueueMaxSize
            /\ mtFlushChan' = mtFlushChan + 1
            /\ signalled' = Append(signalled, arg[t])
            /\ mtLastReplace' = now
            /\ mtLockW' = "none"
            /\ pc' = [pc EXCEPT ![t] = AfterReplace(t)]
            /\ UNCHANGED panicked
    /\ UNCHANGED <<started, startStopLock, now, mtReplaceTimer, timerSaw, memtable, mts,
                   lastCommittedBatchSequences, batch, subs, latest, mtLockR, chanClosed,
                   stopWg, mtFlushQueue, queueCap, mtFlushQueueLock, loop, uploads,
                   registered, committed, enqueued, stored, iterators, its, delivered,
                   loadFor, loaded, arg, columnDef, columnType>>

(***************************************************************************)
(* The periodic rotation: scheduleMtReplace and maybeReplaceMemtable.      *)
(***************************************************************************)
\* the test of maybeReplaceMemtable, on uint64
ReplaceDue(last, t, max) ==
    \/ last = 0
    \/ GreaterEq64(Sub64(Uint64(last), Uint64(t)), Uint64(max))

\* the timer fires: the callback takes startStopLock and returns at once when the
\* engine is stopped
TimerFire ==
    /\ ~panicked
    /\ pc[Timer] = "idle"
    /\ mtReplaceTimer.armed /\ now >= mtReplaceTimer.at
    /\ startStopLock = "none"
    /\ mtReplaceTimer' = [mtReplaceTimer EXCEPT !.armed = FALSE]
    /\ IF started
       THEN /\ startStopLock' = Timer
            /\ pc' = [pc EXCEPT ![Timer] = "maybe"]
       ELSE UNCHANGED <<startStopLock, pc>>
    /\ UNCHANGED <<started, now, mtLastReplace, timerSaw, memtable, mts,
                   lastCommittedBatchSequences, batch, subs, latest, mtLockW, mtLockR,
                   mtFlushChan, chanClosed, stopWg, mtFlushQueue, queueCap,
                   mtFlushQueueLock, loop, uploads, registered, committed, enqueued,
                   signalled, stored, iterators, its, delivered, loadFor, loaded, arg,
                   panicked, columnDef, columnType>>

\* maybeReplaceMemtable: under the read lock, choose whether to rotate
TimerMaybe ==
    /\ ~panicked
    /\ pc[Timer] = "maybe"
    /\ mtLockW = "none"
    /\ IF ReplaceDue(mtLastReplace, now, MemTableMaxReplaceTime)
       THEN /\ memtable <= MaxRotations
            /\ arg' = [arg EXCEPT ![Timer] = memtable]
            /\ timerSaw' = [last |-> mtLastReplace, now |-> now]
            /\ pc' = [pc EXCEPT ![Timer] = "lock"]
       ELSE /\ pc' = [pc EXCEPT ![Timer] = "resched"]
            /\ UNCHANGED <<arg, timerSaw>>
    /\ UNCHANGED <<started, startStopLock, now, mtLastReplace, mtReplaceTimer, memtable,
                   mts, lastCommittedBatchSequences, batch, subs, latest, mtLockW,
                   mtLockR, mtFlushChan, chanClosed, stopWg, mtFlushQueue, queueCap,
                   mtFlushQueueLock, loop, uploads, registered, committed, enqueued,
                   signalled, stored, iterators, its, delivered, loadFor, loaded,
                   panicked, columnDef, columnType>>

\* the end of the callback: scheduleMtReplace, and startStopLock is released
TimerResched ==
    /\ ~panicked
    /\ pc[Timer] = "resched"
    /\ mtReplaceTimer' = ScheduleMtReplace(now)
    /\ startStopLock' = "none"
    /\ pc' = [pc EXCEPT ![Timer] = "idle"]
    /\ UNCHANGED <<started, now, mtLastReplace, timerSaw, memtable, mts,
                   lastCommittedBatchSequences, batch, subs, latest, mtLockW, mtLockR,
                   mtFlushChan, chanClosed, stopWg, mtFlushQueue, queueCap,
                   mtFlushQueueLock, loop, uploads, registered, committed, enqueued,
                   signalled, stored, iterators, its, delivered, loadFor, loaded, arg,
                   panicked, columnDef, columnType>>

(***************************************************************************)
(* The memtable (package mem), by its contract.                            *)
(***************************************************************************)
\* Memtable.Write finds the arena full
MtFull(mt, entries) == mt.used + Len(entries) > MemtableMaxEntries

\* the value a batch leaves under key k: that of its last entry for k
LastValue(entries, k, old) ==
    LET at == {j \in 1..Len(entries) : entries[j].key = k}
    IN  IF at = {} THEN old
        ELSE entries[CHOOSE j \in at : \A l \in at : l <= j].value

\* Memtable.Write applying a batch and keeping its completion function
MtWrite(mt, entries, sub) ==
    [data |-> [k \in Keys |-> LastValue(entries, k, mt.data[k])],
     used |-> mt.used + Len(entries),
     batches |-> Append(mt.batches, sub)]

\* Memtable.Committed: the completion function of every batch written to it is invoked
Committed(mt, ss) ==
    [s \in 1..Len(ss) |->
        IF \E j \in 1..Len(mt.batches) : mt.batches[j] = s
        THEN [ss[s] EXCEPT !.cb = ss[s].cb + 1] ELSE ss[s]]

(***************************************************************************)
(* Write.                                                                  *)
(***************************************************************************)
\* checkDedupCache comparing with < where the code compares with <=
checkDedupCache_strict(seqs, processorID, sequenceNum) ==
    \/ sequenceNum = -1
    \/ processorID \notin DOMAIN seqs
    \/ ~(sequenceNum < seqs[processorID])

\* checkDedupCache: FALSE for a batch seen before
checkDedupCache(seqs, processorID, sequenceNum) ==
    \/ sequenceNum = -1
    \/ processorID \notin DOMAIN seqs
    \/ ~(sequenceNum <= seqs[processorID])

\* the dedup map after checkDedupCache returned TRUE
StoreSequence(seqs, processorID, sequenceNum) ==
    IF sequenceNum = -1 THEN seqs
    ELSE [p \in DOMAIN seqs \cup {processorID} |->
             IF p = processorID THEN sequenceNum ELSE seqs[p]]

\* a dedup row whose value is written big-endian
putDedupEntry_bigEndian(entries, processorID, sequenceNum) ==
    IF DisableBatchSequenceInsertion THEN entries
    ELSE Append(entries, [key |-> createDedupKey(processorID),
                          value |-> AppendUint64ToBufferBE(<<>>, sequenceNum)])

\* putDedupEntry: the batch's entries with the dedup row added
putDedupEntry(entries, processorID, sequenceNum) ==
    IF DisableBatchSequenceInsertion THEN entries
    ELSE Append(entries, [key |-> createDedupKey(processorID),
                          value |-> AppendUint64ToBufferLE(<<>>, sequenceNum)])

\* the dedup map's entry of a processor: <<seq>>, or <<>> when the map has none
Entry(seqs, processorID) ==
    IF processorID \in DOMAIN seqs THEN <<seqs[processorID]>> ELSE <<>>

\* the return of Write
Return(ss, sub, result) == [ss EXCEPT ![sub].ret = result]

\* a caller submits a WriteBatch (processor p, sequence seq, one entry per key of ks)
\* to Write; the callers keep at most one batch per processor in flight
Submit(w, p, seq, ks) ==
    /\ ~panicked
    /\ pc[w] = "idle"
    /\ \A v \in Writers : pc[v] # "idle" => batch[v].proc # p
    /\ Len(subs) < MaxSubmits
    /\ LET sub == Len(subs) + 1
           seen == p \in DOMAIN lastCommittedBatchSequences
       IN  /\ batch' = [batch EXCEPT ![w] =
                  [sub |-> sub, proc |-> p, seq |-> seq,
                   entries |-> [j \in 1..Len(ks) |-> [key |-> ks[j], value |-> <<sub>>]]]]
           /\ subs' = Append(subs, [proc |-> p, seq |-> seq,
                                    dup |-> seq # -1 /\ seen
                                            /\ seq <= lastCommittedBatchSequences[p],
                                    before |-> Entry(lastCommittedBatchSequences, p),
                                    full |-> 0, applied |-> 0, cb |-> 0, ret |-> "pending"])
    /\ pc' = [pc EXCEPT ![w] = "check"]
    /\ UNCHANGED <<started, startStopLock, now, mtLastReplace, mtReplaceTimer, timerSaw,
                   memtable, mts, lastCommittedBatchSequences, latest, mtLockW, mtLockR,
                   mtFlushChan, chanClosed, stopWg, mtFlushQueue, queueCap,
                   mtFlushQueueLock, loop, uploads, registered, committed, enqueued,
                   signalled, stored, iterators, its, delivered, loadFor, loaded, arg,
                   panicked, columnDef, columnType>>

\* the head of Write's loop: checkDedupCache and putDedupEntry
CheckDedup(w) ==
    /\ ~panicked
    /\ pc[w] = "check"
    /\ LET b == batch[w]
           p == b.proc
       IN  IF checkDedupCache(lastCommittedBatchSequences, p, b.seq)
           THEN /\ lastCommittedBatchSequences' =
                       StoreSequence(lastCommittedBatchSequences, p, b.seq)
                /\ batch' = [batch EXCEPT ![w].entries = putDedupEntry(b.entries, p, b.seq)]
                /\ pc' = [pc EXCEPT ![w] = "write"]
                /\ UNCHANGED subs
           ELSE /\ subs' = Return(subs, b.sub, "ok")
                /\ pc' = [pc EXCEPT ![w] = "idle"]
                /\ UNCHANGED <<lastCommittedBatchSequences, batch>>
    /\ UNCHANGED <<started, startStopLock, now, mtLastReplace, mtReplaceTimer, timerSaw,
                   memtable, mts, latest, mtLockW, mtLockR, mtFlushChan, chanClosed,
                   stopWg, mtFlushQueue, queueCap, mtFlushQueueLock, loop, uploads,
                   registered, committed, enqueued, signalled, stored, iterators, its,
                   delivered, loadFor, loaded, arg, panicked, columnDef, columnType>>

\* doWrite: Memtable.Write on the active memtable under the read lock
DoWrite(w) ==
    /\ ~panicked
    /\ pc[w] = "write"
    /\ mtLockW = "none"
    /\ LET b == batch[w]
           mt == mts[memtable]
       IN  IF MtFull(mt, b.entries)
           THEN /\ memtable <= MaxRotations
                /\ subs' = [subs EXCEPT ![b.sub].full = @ + 1]
                /\ arg' = [arg EXCEPT ![w] = memtable]
                /\ pc' = [pc EXCEPT ![w] = "lock"]
                /\ UNCHANGED <<mts, latest>>
           ELSE /\ mts' = [mts EXCEPT ![memtable] = MtWrite(mt, b.entries, b.sub)]
                /\ latest' = [k \in Keys |-> LastValue(b.entries, k, latest[k])]
                /\ subs' = Return([subs EXCEPT ![b.sub].applied = @ + 1], b.sub, "ok")
                /\ pc' = [pc EXCEPT ![w] = "idle"]
                /\ UNCHANGED arg
    /\ UNCHANGED <<started, startStopLock, now, mtLastReplace, mtReplaceTimer, timerSaw,
                   memtable, lastCommittedBatchSequences, batch, mtLockW, mtLockR,
                   mtFlushChan, chanClosed, stopWg, mtFlushQueue, queueCap,
                   mtFlushQueueLock, loop, uploads, registered, committed, enqueued,
                   signalled, stored, iterators, its, delivered, loadFor, loaded,
                   panicked, columnDef, columnType>>

\* doWrite: Memtable.Write returns an error, which Write returns
DoWriteErr(w) ==
    /\ ~panicked
    /\ pc[w] = "write"
    /\ mtLockW = "none"
    /\ subs' = Return(subs, batch[w].sub, "err")
    /\ pc' = [pc EXCEPT ![w] = "idle"]
    /\ UNCHANGED <<started, startStopLock, now, mtLastReplace, mtReplaceTimer, timerSaw,
                   memtable, mts, lastCommittedBatchSequences, batch, latest, mtLockW,
                   mtLockR, mtFlushChan, chanClosed, stopWg, mtFlushQueue, queueCap,
                   mtFlushQueueLock, loop, uploads, registered, committed, enqueued,
                   signalled, stored, iterators, its, delivered, loadFor, loaded, arg,
                   panicked, columnDef, columnType>>

(***************************************************************************)
(* mtFlushRunLoop.                                                         *)
(***************************************************************************)
\* the drain loop's test: entry i (0-based) was taken for upload and has its ssTabInfo
HeadFlushed(q, i, pos) == i < pos /\ q[i + 1].ssTabInfo

\* the queue without its first i entries
DropPrefix(q, i) == SubSeq(q, i + 1, Len(q))

\* for range s.mtFlushChan: receive a signal and take the queue lock
LoopRecv ==
    /\ ~panicked
    /\ loop.pc = "recv"
    /\ mtFlushChan > 0
    /\ mtFlushQueueLock = "free"
    /\ mtFlushChan' = mtFlushChan - 1
    /\ mtFlushQueueLock' = "loop"
    /\ loop' = [loop EXCEPT !.pc = "drain", !.i = 0]
    /\ UNCHANGED <<started, startStopLock, now, mtLastReplace, mtReplaceTimer, timerSaw,
                   memtable, mts, lastCommittedBatchSequences, batch, subs, latest,
                   mtLockW, mtLockR, chanClosed, stopWg, mtFlushQueue, queueCap, uploads,
                   registered, committed, enqueued, signalled, stored, iterators, its,
                   delivered, loadFor, loaded, pc, arg, panicked, columnDef, columnType>>

\* for range s.mtFlushChan ends once the channel is closed and empty: stopWg.Done()
LoopExit ==
    /\ ~panicked
    /\ loop.pc = "recv"
    /\ chanClosed /\ mtFlushChan = 0
    /\ loop' = [loop EXCEPT !.pc = "exited"]
    /\ stopWg' = stopWg - 1
    /\ UNCHANGED <<started, startStopLock, now, mtLastReplace, mtReplaceTimer, timerSaw,
                   memtable, mts, lastCommittedBatchSequences, batch, subs, latest,
                   mtLockW, mtLockR, mtFlushChan, chanClosed, mtFlushQueue, queueCap,
                   mtFlushQueueLock, uploads, registered, committed, enqueued, signalled,
                   stored, iterators, its, delivered, loadFor, loaded, pc, arg, panicked,
                   columnDef, columnType>>

\* the drain loop going on to the commit callback without the controller having
\* accepted the registration
LoopRegister_unregistered ==
    /\ ~panicked
    /\ loop.pc = "drain"
    /\ HeadFlushed(mtFlushQueue, loop.i, loop.pos)
    /\ loop' = [loop EXCEPT !.pc = "commit"]
    /\ UNCHANGED <<started, startStopLock, now, mtLastReplace, mtReplaceTimer, timerSaw,
                   memtable, mts, lastCommittedBatchSequences, batch, subs, latest,
                   mtLockW, mtLockR, mtFlushChan, chanClosed, stopWg, mtFlushQueue,
                   queueCap, mtFlushQueueLock, uploads, registered, committed, enqueued,
                   signalled, stored, iterators, its, delivered, loadFor, loaded, pc, arg,
                   panicked, columnDef, columnType>>

\* controller.ApplyChanges accepting the registration of entry i
LoopRegister ==
    /\ ~panicked
    /\ loop.pc = "drain"
    /\ HeadFlushed(mtFlushQueue, loop.i, loop.pos)
    /\ registered' = Append(registered, mtFlushQueue[loop.i + 1].memtable)
    /\ loop' = [loop EXCEPT !.pc = "commit"]
    /\ UNCHANGED <<started, startStopLock, now, mtLastReplace, mtReplaceTimer, timerSaw,
                   memtable, mts, lastCommittedBatchSequences, batch, subs, latest,
                   mtLockW, mtLockR, mtFlushChan, chanClosed, stopWg, mtFlushQueue,
                   queueCap, mtFlushQueueLock, uploads, committed, enqueued, signalled,
                   stored, iterators, its, delivered, loadFor, loaded, pc, arg, panicked,
                   columnDef, columnType>>

\* controller.ApplyChanges failing: the loop returns, still holding the queue lock
LoopRegisterFail ==
    /\ ~panicked
    /\ loop.pc = "drain"
    /\ HeadFlushed(mtFlushQueue, loop.i, loop.pos)
    /\ loop' = [loop EXCEPT !.pc = "aborted"]
    /\ UNCHANGED <<started, startStopLock, now, mtLastReplace, mtReplaceTimer, timerSaw,
                   memtable, mts, lastCommittedBatchSequences, batch, subs, latest,
                   mtLockW, mtLockR, mtFlushChan, chanClosed, stopWg, mtFlushQueue,
                   queueCap, mtFlushQueueLock, uploads, registered, committed, enqueued,
                   signalled, stored, iterators, its, delivered, loadFor, loaded, pc, arg,
                   panicked, columnDef, columnType>>

\* fe.memtable.Committed(); fe.memtable = nil; i++
LoopCommit ==
    /\ ~panicked
    /\ loop.pc = "commit"
    /\ committed' = Append(committed, mtFlushQueue[loop.i + 1].memtable)
    /\ subs' = Committed(mts[mtFlushQueue[loop.i + 1].memtable], subs)
    /\ mtFlushQueue' = [mtFlushQueue EXCEPT ![loop.i + 1].memtable = NilMt]
    /\ loop' = [loop EXCEPT !.pc = "drain", !.i = loop.i + 1]
    /\ UNCHANGED <<started, startStopLock, now, mtLastReplace, mtReplaceTimer, timerSaw,
                   memtable, mts, lastCommittedBatchSequences, batch, latest, mtLockW,
                   mtLockR, mtFlushChan, chanClosed, stopWg, queueCap, mtFlushQueueLock,
                   uploads, registered, enqueued, signalled, stored, iterators, its,
                   delivered, loadFor, loaded, pc, arg, panicked, columnDef, columnType>>

\* after the drain loop: drop the registered prefix, then take the entry at pos and
\* start its upload
LoopTake ==
    /\ ~panicked
    /\ loop.pc = "drain"
    /\ ~HeadFlushed(mtFlushQueue, loop.i, loop.pos)
    /\ LET i == loop.i
           q == IF i > 0 THEN DropPrefix(mtFlushQueue, i) ELSE mtFlushQueue
           cap == IF i > 0 THEN Len(q) ELSE queueCap
           ups == IF i > 0 THEN Detach(uploads) ELSE uploads
           pos == IF i > 0 THEN loop.pos - i ELSE loop.pos
       IN  /\ mtFlushQueue' = q
           /\ queueCap' = cap
           /\ IF i > 0 /\ pos = Len(q)
              THEN \* continue
                   /\ loop' = [pc |-> "recv", pos |-> pos, i |-> i]
                   /\ uploads' = ups
                   /\ mtFlushQueueLock' = "free"
                   /\ UNCHANGED panicked
              ELSE IF pos >= Len(q)
              THEN \* &s.mtFlushQueue[pos]: index out of range
                   /\ panicked' = TRUE
                   /\ loop' = [pc |-> "drain", pos |-> pos, i |-> i]
                   /\ uploads' = ups
                   /\ UNCHANGED mtFlushQueueLock
              ELSE /\ loop' = [pc |-> "recv", pos |-> pos + 1, i |-> i]
                   /\ uploads' = [ups EXCEPT ![q[pos + 1].memtable] =
                                      [st |-> "running", aliased |-> TRUE]]
                   /\ mtFlushQueueLock' = "free"
                   /\ UNCHANGED panicked
    /\ UNCHANGED <<started, startStopLock, now, mtLastReplace, mtReplaceTimer, timerSaw,
                   memtable, mts, lastCommittedBatchSequences, batch, subs, latest,
                   mtLockW, mtLockR, mtFlushChan, chanClosed, stopWg, registered,
                   committed, enqueued, signalled, stored, iterators, its, delivered,
                   loadFor, loaded, pc, arg, columnDef, columnType>>

(***************************************************************************)
(* flushMemtable, run by one goroutine per taken entry.                    *)
(***************************************************************************)
\* the queue after setSSTableInfo through the goroutine's flushEntry pointer: the store
\* reaches the queue only while the pointer still aliases the queue's backing array
SetSSTableInfo(q, m, aliased) ==
    [k \in 1..Len(q) |-> IF aliased /\ q[k].memtable = m
                         THEN [q[k] EXCEPT !.ssTabInfo = TRUE] ELSE q[k]]

\* BuildSSTable, TableCache.AddSSTable, cloudStore.Add and setSSTableInfo
FlushStore(m) ==
    /\ ~panicked
    /\ uploads[m].st = "running"
    /\ mtFlushQueue' = SetSSTableInfo(mtFlushQueue, m, uploads[m].aliased)
    /\ uploads' = [uploads EXCEPT ![m].st = "signal"]
    /\ stored' = Append(stored, m)
    /\ UNCHANGED <<started, startStopLock, now, mtLastReplace, mtReplaceTimer, timerSaw,
                   memtable, mts, lastCommittedBatchSequences, batch, subs, latest,
                   mtLockW, mtLockR, mtFlushChan, chanClosed, stopWg, queueCap,
                   mtFlushQueueLock, loop, registered, committed, enqueued, signalled,
                   iterators, its, delivered, loadFor, loaded, pc, arg, panicked,
                   columnDef, columnType>>

\* an error of BuildSSTable, AddSSTable or cloudStore.Add: the goroutine ends
FlushStoreFail(m) ==
    /\ ~panicked
    /\ uploads[m].st = "running"
    /\ uploads' = [uploads EXCEPT ![m].st = "failed"]
    /\ UNCHANGED <<started, startStopLock, now, mtLastReplace, mtReplaceTimer, timerSaw,
                   memtable, mts, lastCommittedBatchSequences, batch, subs, latest,
                   mtLockW, mtLockR, mtFlushChan, chanClosed, stopWg, mtFlushQueue,
                   queueCap, mtFlushQueueLock, loop, registered, committed, enqueued,
                   signalled, stored, iterators, its, delivered, loadFor, loaded, pc, arg,
                   panicked, columnDef, columnType>>

\* s.mtFlushChan <- struct{}{} at the end of flushMemtable
FlushSignal(m) ==
    /\ ~panicked
    /\ uploads[m].st = "signal"
    /\ IF chanClosed
       THEN /\ panicked' = TRUE
            /\ UNCHANGED <<mtFlushChan, uploads>>
       ELSE /\ mtFlushChan < MemtableFlushQueueMaxSize
            /\ mtFlushChan' = mtFlushChan + 1
            /\ uploads' = [uploads EXCEPT ![m].st = "done"]
            /\ UNCHANGED panicked
    /\ UNCHANGED <<started, startStopLock, now, mtLastReplace, mtReplaceTimer, timerSaw,
                   memtable, mts, lastCommittedBatchSequences, batch, subs, latest,
                   mtLockW, mtLockR, chanClosed, stopWg, mtFlushQueue, queueCap,
                   mtFlushQueueLock, loop, registered, committed, enqueued, signalled,
                   stored, iterators, its, delivered, loadFor, loaded, pc, arg, columnDef,
                   columnType>>

(***************************************************************************)
(* The flush pipeline driven by forced rotations.                          *)
(***************************************************************************)
NextFlush ==
    \/ Start
    \/ ForceLock
    \/ ReplaceSwap(Forcer)
    \/ ReplaceSignal(Forcer)
    \/ LoopRecv
    \/ LoopRegister
    \/ LoopRegisterFail
    \/ LoopCommit
    \/ LoopTake
    \/ \E m \in MtIds : FlushStore(m)
    \/ \E m \in MtIds : FlushStoreFail(m)
    \/ \E m \in MtIds : FlushSignal(m)

SpecFlush == Init /\ [][NextFlush]_vars

\* the pipeline when no upload and no controller call fails
NextFlushOK ==
    \/ Start
    \/ ForceLock
    \/ ReplaceSwap(Forcer)
    \/ ReplaceSignal(Forcer)
    \/ LoopRecv
    \/ LoopRegister
    \/ LoopCommit
    \/ LoopTake
    \/ \E m \in MtIds : FlushStore(m)
    \/ \E m \in MtIds : FlushSignal(m)

\* every goroutine that can take a step eventually takes it
FairFlush ==
    /\ Init /\ [][NextFlushOK]_vars
    /\ WF_vars(Start)
    /\ WF_vars(ReplaceSwap(Forcer)) /\ WF_vars(ReplaceSignal(Forcer))
    /\ WF_vars(LoopRecv) /\ WF_vars(LoopRegister) /\ WF_vars(LoopCommit) /\ WF_vars(LoopTake)
    /\ \A m \in MtIds : WF_vars(FlushStore(m)) /\ WF_vars(FlushSignal(m))

(***************************************************************************)
(* Concurrent writers, each with a processor of its own, filling and       *)
(* rotating the memtable while the run loop takes the rotated memtables.   *)
(***************************************************************************)
ProcessorOf(w) == IF w = "w1" THEN 1 ELSE 2

NextRotate ==
    \/ Start
    \/ \E w \in Writers : Submit(w, ProcessorOf(w), -1, <<<<1>>>>)
    \/ \E w \in Writers : CheckDedup(w)
    \/ \E w \in Writers : DoWrite(w)
    \/ \E w \in Writers : ReplaceLock(w)
    \/ \E w \in Writers : ReplaceSwap(w)
    \/ \E w \in Writers : ReplaceSignal(w)
    \/ LoopRecv
    \/ LoopTake

SpecRotate == Init /\ [][NextRotate]_vars

(***************************************************************************)
(* Stop while the flush pipeline is at work.                               *)
(***************************************************************************)
NextStop ==
    \/ Start
    \/ StopClose
    \/ StopReturn
    \/ ForceLock
    \/ ReplaceSwap(Forcer)
    \/ ReplaceSignal(Forcer)
    \/ LoopRecv
    \/ LoopRegister
    \/ LoopRegisterFail
    \/ LoopCommit
    \/ LoopTake
    \/ LoopExit
    \/ \E m \in MtIds : FlushStore(m)
    \/ \E m \in MtIds : FlushSignal(m)

SpecStop == Init /\ [][NextStop]_vars

\* every goroutine that can take a step eventually takes it; a failure of the
\* controller, a forced rotation and the call of Stop need not happen
FairStop ==
    /\ SpecStop
    /\ WF_vars(Start) /\ WF_vars(StopReturn)
    /\ WF_vars(ReplaceSwap(Forcer)) /\ WF_vars(ReplaceSignal(Forcer))
    /\ WF_vars(LoopRecv) /\ WF_vars(LoopRegister) /\ WF_vars(LoopCommit) /\ WF_vars(LoopTake)
    /\ WF_vars(LoopExit)
    /\ \A m \in MtIds : WF_vars(FlushStore(m)) /\ WF_vars(FlushSignal(m))

(***************************************************************************)
(* NewIterator and the shaktiIterator.                                     *)
(***************************************************************************)
\* controller.GetTableIDsForRange: the registered tables, newest first, each level-0
\* table a group of its own
GetTableIDsForRange(reg) == [k \in 1..Len(reg) |-> <<reg[Len(reg) + 1 - k]>>]

\* the controller's answer once it has put the registered tables into one non-overlap
\* group
GetTableIDsForRangeCompacted(reg) == IF Len(reg) < 2 THEN GetTableIDsForRange(reg) ELSE <<reg>>

\* the entries of a source: those of the memtable, or of the SSTable built from it
\* (a memtable in the flush queue is not written any more)
SourceData(src) ==
    IF src.kind \in {"mt", "sst"} THEN mts[src.id].data ELSE [k \in Keys |-> NoVal]

\* the keys a source yields for a range ending at rangeEnd
SourceKeys(src, rangeEnd) ==
    {k \in Keys : /\ SourceData(src)[k] # NoVal
                  /\ (src.start = NilKey \/ ~Less(k, src.start))
                  /\ (rangeEnd = NilKey \/ Less(k, rangeEnd))}

\* the keys the merging iterator of handle it still has before it
AheadKeys(it) ==
    {k \in Keys : /\ \E j \in 1..Len(it.srcs) : k \in SourceKeys(it.srcs[j], it.rangeEnd)
                  /\ (it.floor = NilKey \/ Less(it.floor, k))}

\* MergingIterator.IsValid
IsValid(it) == AheadKeys(it) # {}

\* the value the merging iterator yields for key k: that of the first source with k
MergedValue(it, k) ==
    LET has == {j \in 1..Len(it.srcs) : k \in SourceKeys(it.srcs[j], it.rangeEnd)}
    IN  IF has = {} THEN NoVal
        ELSE SourceData(it.srcs[CHOOSE j \in has : \A l \in has : j <= l])[k]

\* MergingIterator.Current: the smallest key ahead
Current(it) ==
    LET k == CHOOSE c \in AheadKeys(it) : \A d \in AheadKeys(it) : d = c \/ Less(c, d)
    IN  [key |-> k, value |-> MergedValue(it, k)]

\* the memtable iterators of the flush queue, newest first
QueueSources(q, rangeStart) ==
    [k \in 1..Len(q) |-> [kind |-> "mt", id |-> q[Len(q) + 1 - k].memtable,
                           start |-> rangeStart]]

\* a slot of the source list that has not been filled
NilSource == [kind |-> "nil", id |-> NilMt, start |-> NilKey]

\* the source list iters as the slice of n slots it lives in
Slots(iters, n) ==
    iters \o [k \in 1..(IF n > Len(iters) THEN n - Len(iters) ELSE 0) |-> NilSource]

\* chainIters: the lazy SSTable iterators of a group, in the group's order
LazySources(group, rangeStart) ==
    [k \in 1..Len(group) |-> [kind |-> "sst", id |-> group[k], start |-> rangeStart]]

\* iteration.NewChainingIterator over a list of iterators
NewChainingIterator(list, rangeStart) ==
    [kind |-> "chain", id |-> NilMt, start |-> rangeStart, over |-> list]

\* the source list iters with the sources of the groups the controller returned added:
\* a lazy SSTable iterator for a group of one table, else a chaining iterator, which
\* the code builds over the slice iters
RECURSIVE TableSources(_, _, _, _)
TableSources(ids, rangeStart, iters, n) ==
    IF ids = <<>> THEN iters
    ELSE LET group == Head(ids)
             src == IF Len(group) = 1
                    THEN LazySources(group, rangeStart)[1]
                    ELSE NewChainingIterator(Slots(iters, n), rangeStart)
         IN  TableSources(Tail(ids), rangeStart, Append(iters, src), n)

\* NewIterator: the lookup of the table ids, before any lock is taken
IterLookup(r, rangeStart, rangeEnd) ==
    /\ ~panicked
    /\ pc[r] = "idle"
    /\ its' = [its EXCEPT ![r] =
                  [rangeStart |-> rangeStart, rangeEnd |-> rangeEnd, lastKey |-> NilKey,
                   srcs |-> <<>>, floor |-> NilKey,
                   ids |-> GetTableIDsForRange(registered), n |-> 0]]
    /\ delivered' = [delivered EXCEPT ![r] = <<>>]
    /\ pc' = [pc EXCEPT ![r] = "alloc"]
    /\ UNCHANGED <<started, startStopLock, now, mtLastReplace, mtReplaceTimer, timerSaw,
                   memtable, mts, lastCommittedBatchSequences, batch, subs, latest,
                   mtLockW, mtLockR, mtFlushChan, chanClosed, stopWg, mtFlushQueue,
                   queueCap, mtFlushQueueLock, loop, uploads, registered, committed,
                   enqueued, signalled, stored, iterators, loadFor, loaded, arg, panicked,
                   columnDef, columnType>>

\* NewIterator: the lookup of the table ids when the controller has compacted its
\* tables
IterLookupCompacted(r, rangeStart, rangeEnd) ==
    /\ ~panicked
    /\ pc[r] = "idle"
    /\ its' = [its EXCEPT ![r] =
                  [rangeStart |-> rangeStart, rangeEnd |-> rangeEnd, lastKey |-> NilKey,
                   srcs |-> <<>>, floor |-> NilKey,
                   ids |-> GetTableIDsForRangeCompacted(registered), n |-> 0]]
    /\ delivered' = [delivered EXCEPT ![r] = <<>>]
    /\ pc' = [pc EXCEPT ![r] = "alloc"]
    /\ UNCHANGED <<started, startStopLock, now, mtLastReplace, mtReplaceTimer, timerSaw,
                   memtable, mts, lastCommittedBatchSequences, batch, subs, latest,
                   mtLockW, mtLockR, mtFlushChan, chanClosed, stopWg, mtFlushQueue,
                   queueCap, mtFlushQueueLock, loop, uploads, registered, committed,
                   enqueued, signalled, stored, iterators, loadFor, loaded, arg, panicked,
                   columnDef, columnType>>

\* the process ends and NewShakti builds a new engine on the same controller and cloud
\* store: what was registered survives, the rest is as after construction
Restart ==
    /\ memtable <= MaxRotations
    /\ memtable' = NewMemtable(memtable)
    /\ started' = FALSE
    /\ startStopLock' = "none"
    /\ mtLastReplace' = 0
    /\ mtReplaceTimer' = [armed |-> FALSE, at |-> 0]
    /\ lastCommittedBatchSequences' = [p \in {} |-> 0]
    /\ batch' = [w \in Writers |-> [sub |-> 0, proc |-> 0, seq |-> 0, entries |-> <<>>]]
    /\ mtLockW' = "none"
    /\ mtLockR' = {}
    /\ mtFlushChan' = 0
    /\ chanClosed' = FALSE
    /\ stopWg' = 0
    /\ mtFlushQueue' = <<>>
    /\ queueCap' = 0
    /\ mtFlushQueueLock' = "free"
    /\ loop' = [pc |-> "off", pos |-> 0, i |-> 0]
    /\ uploads' = [m \in MtIds |-> [st |-> "none", aliased |-> FALSE]]
    /\ iterators' = {}
    /\ its' = [r \in Readers |-> [rangeStart |-> NilKey, rangeEnd |-> NilKey, lastKey |-> NilKey,
                                  srcs |-> <<>>, floor |-> NilKey, ids |-> <<>>, n |-> 0]]
    /\ loadFor' = [r \in Readers |-> 0]
    /\ pc' = [t \in Threads |-> "idle"]
    /\ arg' = [t \in Threads |-> NilMt]
    /\ panicked' = FALSE
    /\ UNCHANGED <<now, timerSaw, mts, subs, latest, registered, committed, enqueued,
                   signalled, stored, delivered, loaded, columnDef, columnType>>

\* LoadLastBatchSequence(processorID): NewIterator over the range of the processor's
\* dedup key, beginning with the lookup of the table ids
LoadLookup(r, processorID) ==
    /\ ~panicked
    /\ pc[r] = "idle"
    /\ its' = [its EXCEPT ![r] =
                  [rangeStart |-> createDedupKey(processorID),
                   rangeEnd |-> IncrementBytesBigEndian(createDedupKey(processorID)),
                   lastKey |-> NilKey, srcs |-> <<>>, floor |-> NilKey,
                   ids |-> GetTableIDsForRange(registered), n |-> 0]]
    /\ delivered' = [delivered EXCEPT ![r] = <<>>]
    /\ loadFor' = [loadFor EXCEPT ![r] = processorID]
    /\ pc' = [pc EXCEPT ![r] = "alloc"]
    /\ UNCHANGED <<started, startStopLock, now, mtLastReplace, mtReplaceTimer, timerSaw,
                   memtable, mts, lastCommittedBatchSequences, batch, subs, latest,
                   mtLockW, mtLockR, mtFlushChan, chanClosed, stopWg, mtFlushQueue,
                   queueCap, mtFlushQueueLock, loop, uploads, registered, committed,
                   enqueued, signalled, stored, iterators, loaded, arg, panicked,
                   columnDef, columnType>>

\* NewIterator: under the read lock, size the source list and add the active memtable
IterAlloc(r) ==
    /\ ~panicked
    /\ pc[r] = "alloc"
    /\ mtLockW = "none"
    /\ mtLockR' = mtLockR \cup {r}
    /\ its' = [its EXCEPT ![r].n = Len(its[r].ids) + 1 + Len(mtFlushQueue),
                          ![r].srcs = <<[kind |-> "mt", id |-> memtable,
                                         start |-> its[r].rangeStart]>>]
    /\ pc' = [pc EXCEPT ![r] = "build"]
    /\ UNCHANGED <<started, startStopLock, now, mtLastReplace, mtReplaceTimer, timerSaw,
                   memtable, mts, lastCommittedBatchSequences, batch, subs, latest,
                   mtLockW, mtFlushChan, chanClosed, stopWg, mtFlushQueue, queueCap,
                   mtFlushQueueLock, loop, uploads, registered, committed, enqueued,
                   signalled, stored, iterators, delivered, loadFor, loaded, arg,
                   panicked, columnDef, columnType>>

\* NewIterator: under the queue lock add the queued memtables, then the sources of
\* the SSTables
IterBuild(r) ==
    /\ ~panicked
    /\ pc[r] = "build"
    /\ mtFlushQueueLock = "free"
    /\ its' = [its EXCEPT ![r].srcs =
                  TableSources(its[r].ids, its[r].rangeStart,
                               its[r].srcs \o QueueSources(mtFlushQueue, its[r].rangeStart),
                               its[r].n)]
    /\ pc' = [pc EXCEPT ![r] = "register"]
    /\ UNCHANGED <<started, startStopLock, now, mtLastReplace, mtReplaceTimer, timerSaw,
                   memtable, mts, lastCommittedBatchSequences, batch, subs, latest,
                   mtLockW, mtLockR, mtFlushChan, chanClosed, stopWg, mtFlushQueue,
                   queueCap, mtFlushQueueLock, loop, uploads, registered, committed,
                   enqueued, signalled, stored, iterators, delivered, loadFor, loaded,
                   arg, panicked, columnDef, columnType>>

\* NewIterator: newShaktiIterator builds the merging iterator, the handle is put into
\* s.iterators, still under the read lock, and the lock is released. A source list
\* with slots left nil makes the merging iterator dereference nil; a write to the map
\* while another goroutine writes to it is a data race, which the runtime may end with
\* "fatal error: concurrent map writes"
IterRegister(r) ==
    /\ ~panicked
    /\ pc[r] = "register"
    /\ IF Len(its[r].srcs) < its[r].n
       THEN /\ panicked' = TRUE
            /\ UNCHANGED <<iterators, mtLockR, pc>>
       ELSE \/ /\ iterators' = iterators \cup {r}
               /\ mtLockR' = mtLockR \ {r}
               /\ pc' = [pc EXCEPT ![r] = "open"]
               /\ UNCHANGED panicked
            \/ /\ \E q \in Readers \ {r} : pc[q] = "register"
               /\ panicked' = TRUE
               /\ UNCHANGED <<iterators, mtLockR, pc>>
    /\ UNCHANGED <<started, startStopLock, now, mtLastReplace, mtReplaceTimer, timerSaw,
                   memtable, mts, lastCommittedBatchSequences, batch, subs, latest,
                   mtLockW, mtFlushChan, chanClosed, stopWg, mtFlushQueue, queueCap,
                   mtFlushQueueLock, loop, uploads, registered, committed, enqueued,
                   signalled, stored, its, delivered, loadFor, loaded, arg, columnDef,
                   columnType>>

\* LoadLastBatchSequence once NewIterator has returned: when the iterator is valid the
\* value of its current entry is stored in the dedup map; the iterator is not closed
LoadStore(r) ==
    /\ ~panicked
    /\ pc[r] = "open"
    /\ loadFor[r] # 0
    /\ mtLockW = "none"
    /\ IF IsValid(its[r])
       THEN LET kv == Current(its[r])
                lastSequence == ReadInt64FromBufferLE(kv.value)
            IN  /\ its' = [its EXCEPT ![r].lastKey = kv.key]
                /\ delivered' = [delivered EXCEPT ![r] = Append(@, kv)]
                /\ lastCommittedBatchSequences' =
                       [p \in DOMAIN lastCommittedBatchSequences \cup {loadFor[r]} |->
                           IF p = loadFor[r] THEN lastSequence
                           ELSE lastCommittedBatchSequences[p]]
                /\ loaded' = Append(loaded,
                                    [proc |-> loadFor[r], seq |-> lastSequence,
                                     fresh |-> DOMAIN lastCommittedBatchSequences = {}])
       ELSE UNCHANGED <<its, delivered, lastCommittedBatchSequences, loaded>>
    /\ loadFor' = [loadFor EXCEPT ![r] = 0]
    /\ pc' = [pc EXCEPT ![r] = "loaded"]
    /\ UNCHANGED <<started, startStopLock, now, mtLastReplace, mtReplaceTimer, timerSaw,
                   memtable, mts, batch, subs, latest, mtLockW, mtLockR, mtFlushChan,
                   chanClosed, stopWg, mtFlushQueue, queueCap, mtFlushQueueLock, loop,
                   uploads, registered, committed, enqueued, signalled, stored, iterators,
                   arg, panicked, columnDef, columnType>>

\* shaktiIterator.Current on a valid iterator: the entry is delivered and its key kept
\* as lastKey
IterCurrent(r) ==
    /\ ~panicked
    /\ pc[r] = "open"
    /\ loadFor[r] = 0
    /\ mtLockW = "none"
    /\ IsValid(its[r])
    /\ its' = [its EXCEPT ![r].lastKey = Current(its[r]).key]
    /\ delivered' = [delivered EXCEPT ![r] = Append(@, Current(its[r]))]
    /\ pc' = [pc EXCEPT ![r] = "got"]
    /\ UNCHANGED <<started, startStopLock, now, mtLastReplace, mtReplaceTimer, timerSaw,
                   memtable, mts, lastCommittedBatchSequences, batch, subs, latest,
                   mtLockW, mtLockR, mtFlushChan, chanClosed, stopWg, mtFlushQueue,
                   queueCap, mtFlushQueueLock, loop, uploads, registered, committed,
                   enqueued, signalled, stored, iterators, loadFor, loaded, arg, panicked,
                   columnDef, columnType>>

\* shaktiIterator.Next: the merging iterator moves past the entry it stood on
IterNext(r) ==
    /\ ~panicked
    /\ pc[r] = "got"
    /\ mtLockW = "none"
    /\ its' = [its EXCEPT ![r].floor = its[r].lastKey]
    /\ pc' = [pc EXCEPT ![r] = "open"]
    /\ UNCHANGED <<started, startStopLock, now, mtLastReplace, mtReplaceTimer, timerSaw,
                   memtable, mts, lastCommittedBatchSequences, batch, subs, latest,
                   mtLockW, mtLockR, mtFlushChan, chanClosed, stopWg, mtFlushQueue,
                   queueCap, mtFlushQueueLock, loop, uploads, registered, committed,
                   enqueued, signalled, stored, iterators, delivered, loadFor, loaded,
                   arg, panicked, columnDef, columnType>>

\* shaktiIterator.Close: removeIterator under the write lock
IterClose(r) ==
    /\ ~panicked
    /\ pc[r] \in {"open", "got"}
    /\ loadFor[r] = 0
    /\ mtLockW = "none" /\ mtLockR = {}
    /\ iterators' = iterators \ {r}
    /\ pc' = [pc EXCEPT ![r] = "idle"]
    /\ UNCHANGED <<started, startStopLock, now, mtLastReplace, mtReplaceTimer, timerSaw,
                   memtable, mts, lastCommittedBatchSequences, batch, subs, latest,
                   mtLockW, mtLockR, mtFlushChan, chanClosed, stopWg, mtFlushQueue,
                   queueCap, mtFlushQueueLock, loop, uploads, registered, committed,
                   enqueued, signalled, stored, its, delivered, loadFor, loaded, arg,
                   panicked, columnDef, columnType>>

(***************************************************************************)
(* A reader beside a writer and the flush pipeline.                        *)
(***************************************************************************)
NextIter ==
    \/ Start
    \/ \E k \in {<<1>>, <<1, 2>>} : Submit("w1", 1, -1, <<k>>)
    \/ CheckDedup("w1")
    \/ DoWrite("w1")
    \/ ReplaceLock("w1")
    \/ ReplaceSwap("w1")
    \/ ReplaceSignal("w1")
    \/ LoopRecv
    \/ LoopRegister
    \/ LoopCommit
    \/ LoopTake
    \/ \E m \in MtIds : FlushStore(m)
    \/ \E m \in MtIds : FlushSignal(m)
    \/ IterLookup("r1", NilKey, NilKey)
    \/ IterAlloc("r1")
    \/ IterBuild("r1")
    \/ IterRegister("r1")
    \/ IterCurrent("r1")
    \/ IterNext("r1")
    \/ IterClose("r1")

SpecIter == Init /\ [][NextIter]_vars

(***************************************************************************)
(* Recovery: writes and flushes, one restart at any time, and              *)
(* LoadLastBatchSequence, called on the engine the restart built, up to    *)
(* its return.                                                             *)
(***************************************************************************)
\* the engines built on the store after the first: every memtable but the first was
\* made by a rotation or by the construction of an engine
Restarts == memtable - 1 - Len(enqueued)

\* the callers write to the first engine; the engine built by the restart is
\* followed up to the end of its recovery
MayWrite == Restarts = 0

NextRecover ==
    \/ Start
    \/ Restarts = 0 /\ Restart
    \/ \E seq \in {-1, MaxSeq} : MayWrite /\ Submit("w1", 1, seq, <<<<1>>>>)
    \/ MayWrite /\ Submit("w1", 2, 1, <<<<2>>>>)
    \/ CheckDedup("w1")
    \/ DoWrite("w1")
    \/ ReplaceLock("w1")
    \/ ReplaceSwap("w1")
    \/ ReplaceSignal("w1")
    \/ LoopRecv
    \/ LoopRegister
    \/ LoopCommit
    \/ LoopTake
    \/ \E m \in MtIds : FlushStore(m)
    \/ \E m \in MtIds : FlushSignal(m)
    \/ \E p \in Processors : Restarts = 1 /\ LoadLookup("r1", p)
    \/ IterAlloc("r1")
    \/ IterBuild("r1")
    \/ IterRegister("r1")
    \/ LoadStore("r1")

SpecRecover == Init /\ [][NextRecover]_vars

(***************************************************************************)
(* A reader whose lookup finds the controller's tables compacted.          *)
(***************************************************************************)
NextChain ==
    \/ Start
    \/ ForceLock
    \/ ReplaceSwap(Forcer)
    \/ ReplaceSignal(Forcer)
    \/ LoopRecv
    \/ LoopRegister
    \/ LoopCommit
    \/ LoopTake
    \/ \E m \in MtIds : FlushStore(m)
    \/ \E m \in MtIds : FlushSignal(m)
    \/ IterLookupCompacted("r1", NilKey, NilKey)
    \/ IterAlloc("r1")
    \/ IterBuild("r1")
    \/ IterRegister("r1")
    \/ IterClose("r1")

SpecChain == Init /\ [][NextChain]_vars

(***************************************************************************)
(* Two readers beside forced rotations.                                    *)
(***************************************************************************)
NextReaders ==
    \/ Start
    \/ ForceLock
    \/ ReplaceSwap(Forcer)
    \/ ReplaceSignal(Forcer)
    \/ LoopRecv
    \/ LoopTake
    \/ \E r \in Readers : IterLookup(r, NilKey, NilKey)
    \/ \E r \in Readers : IterAlloc(r)
    \/ \E r \in Readers : IterBuild(r)
    \/ \E r \in Readers : IterRegister(r)
    \/ \E r \in Readers : IterClose(r)

SpecReaders == Init /\ [][NextReaders]_vars

(***************************************************************************)
(* Writers, with the flush pipeline committing their memtables.            *)
(***************************************************************************)

NextWrite ==
    \/ Start
    \/ \E p \in Processors, seq \in Seqs : Submit("w1", p, seq, <<<<1>>>>)
    \/ CheckDedup("w1")
    \/ DoWrite("w1")
    \/ DoWriteErr("w1")
    \/ ReplaceLock("w1")
    \/ ReplaceSwap("w1")
    \/ ReplaceSignal("w1")
    \/ LoopRecv
    \/ LoopRegister
    \/ LoopCommit
    \/ LoopTake
    \/ \E m \in MtIds : FlushStore(m)
    \/ \E m \in MtIds : FlushSignal(m)

SpecWrite == Init /\ [][NextWrite]_vars

\* the same when Memtable.Write returns no error
NextWriteOK ==
    \/ Start
    \/ \E p \in Processors, seq \in Seqs : Submit("w1", p, seq, <<<<1>>>>)
    \/ CheckDedup("w1")
    \/ DoWrite("w1")
    \/ ReplaceLock("w1")
    \/ ReplaceSwap("w1")
    \/ ReplaceSignal("w1")
    \/ LoopRecv
    \/ LoopRegister
    \/ LoopCommit
    \/ LoopTake
    \/ \E m \in MtIds : FlushStore(m)
    \/ \E m \in MtIds : FlushSignal(m)

SpecWriteOK == Init /\ [][NextWriteOK]_vars

(***************************************************************************)
(* The periodic rotation beside forced rotations, while the run loop takes *)
(* the rotated memtables and their uploads are still under way.            *)
(***************************************************************************)
NextTimer ==
    \/ Start
    \/ Tick
    \/ TimerFire
    \/ TimerMaybe
    \/ TimerResched
    \/ ReplaceLock(Timer)
    \/ ReplaceSwap(Timer)
    \/ ReplaceSignal(Timer)
    \/ ForceLock
    \/ ReplaceSwap(Forcer)
    \/ ReplaceSignal(Forcer)
    \/ LoopRecv
    \/ LoopTake

SpecTimer == Init /\ [][NextTimer]_vars

(***************************************************************************)
(* Properties of the flush pipeline.                                       *)
(***************************************************************************)
IsPrefix(a, b) == Len(a) <= Len(b) /\ \A k \in 1..Len(a) : a[k] = b[k]
NoDuplicates(a) == \A j, k \in 1..Len(a) : a[j] = a[k] => j = k
InQueue(m) == \E k \in 1..Len(mtFlushQueue) : mtFlushQueue[k].memtable = m
Occurs(a, m) == \E k \in 1..Len(a) : a[k] = m
IndexOf(a, m) == CHOOSE k \in 1..Len(a) : a[k] = m

\* C1: the controller receives the registrations of flush-queue entries in exactly the
\* order in which their memtables were appended to the flush queue, whatever the order
\* in which the uploads complete
C1_RegistrationInEnqueueOrder == IsPrefix(registered, enqueued)

\* C1 witness: two memtables are registered although the upload of the later one
\* completed first
C1_Witness ==
    \E a, b \in MtIds :
        /\ Occurs(registered, a) /\ Occurs(registered, b)
        /\ IndexOf(enqueued, a) < IndexOf(enqueued, b)
        /\ IndexOf(stored, b) < IndexOf(stored, a)

\* C3: with fair scheduling and no failing upload or controller call, every memtable
\* appended to the flush queue is eventually uploaded, registered, committed and removed
\* from the queue
C3_EveryEntryEventuallyRegistered ==
    \A m \in MtIds :
        Occurs(enqueued, m) ~>
            (Occurs(stored, m) /\ Occurs(registered, m) /\ Occurs(committed, m) /\ ~InQueue(m))

\* C4: a memtable's commit callback is invoked only after the controller accepted the
\* registration of its SSTable, at most once per memtable, and in enqueue order
C4_CommitAfterRegistrationInOrder ==
    /\ IsPrefix(committed, registered)
    /\ IsPrefix(committed, enqueued)
    /\ NoDuplicates(committed)

\* C4 witness: two memtables have had their commit callbacks invoked
C4_Witness == Len(committed) >= 2 /\ committed[1] = 1 /\ committed[2] = 2

(***************************************************************************)
(* Properties of Write.                                                    *)
(***************************************************************************)
SubIds == 1..Len(subs)

\* the completion functions of a Write call that a memtable still holds for its commit
PendingCallbacks(s) ==
    Cardinality({m \in MtIds : /\ \E j \in 1..Len(mts[m].batches) : mts[m].batches[j] = s
                               /\ ~Occurs(committed, m)})

\* C2: a Write (sequence_num # -1, not a duplicate) that got "full" from the active
\* memtable rotates once, retries, and when it returns success its batch has been applied
\* to a memtable exactly once
C2_FullBatchAppliedOnce ==
    \A s \in SubIds :
        (subs[s].seq # -1 /\ ~subs[s].dup /\ subs[s].full >= 1 /\ subs[s].ret = "ok")
            => (subs[s].applied = 1 /\ subs[s].full = 1)

\* C5: a duplicate WriteBatch makes Write return success and leaves storage unchanged:
\* nothing is added to a memtable, no rotation happens, the dedup map is unchanged
C5_DuplicateLeavesStorageUnchanged ==
    /\ [](\A s \in SubIds :
            subs[s].dup => /\ subs[s].applied = 0 /\ subs[s].full = 0
                           /\ subs[s].ret \in {"pending", "ok"})
    /\ [][\A w \in Writers :
            (pc[w] = "check" /\ subs[batch[w].sub].dup /\ pc'[w] # "check")
                => /\ pc'[w] = "idle"
                   /\ subs'[batch[w].sub].ret = "ok"
                   /\ mts' = mts /\ memtable' = memtable
                   /\ mtFlushQueue' = mtFlushQueue /\ enqueued' = enqueued
                   /\ batch' = batch
                   /\ lastCommittedBatchSequences' = lastCommittedBatchSequences]_vars

\* C5 witness: a duplicate of an applied batch has returned success
C5_Witness ==
    \E s, d \in SubIds :
        /\ s < d /\ subs[s].proc = subs[d].proc /\ subs[s].seq = subs[d].seq
        /\ subs[s].applied = 1 /\ subs[d].dup /\ subs[d].ret = "ok"

\* C6: for every submitted WriteBatch the completion callback is invoked exactly once
\* per submission, with the outcome Write returned: once Write has returned, the
\* callback has been invoked once or a memtable holds it for its commit
C6_CallbackExactlyOnce ==
    \A s \in SubIds :
        subs[s].ret # "pending" => subs[s].cb + PendingCallbacks(s) = 1

\* C9: per processor the batches applied to a memtable have strictly increasing
\* sequence numbers, and the processor's entry of the dedup map never decreases
C9_SequencesIncrease ==
    /\ [](\A s, t \in SubIds :
            (/\ s < t /\ subs[s].proc = subs[t].proc
             /\ subs[s].seq # -1 /\ subs[t].seq # -1
             /\ subs[s].applied > 0 /\ subs[t].applied > 0)
                => subs[s].seq < subs[t].seq)
    /\ [][\A p \in DOMAIN lastCommittedBatchSequences :
            /\ p \in DOMAIN lastCommittedBatchSequences'
            /\ lastCommittedBatchSequences'[p] >= lastCommittedBatchSequences[p]]_vars

\* C9 witness: a processor has had sequence 1 and then sequence 2 applied, and the dedup
\* map records 2
C9_Witness ==
    \E s, t \in SubIds :
        /\ s < t /\ subs[s].proc = subs[t].proc
        /\ subs[s].seq = 1 /\ subs[t].seq = 2
        /\ subs[s].applied = 1 /\ subs[t].applied = 1
        /\ subs[s].proc \in DOMAIN lastCommittedBatchSequences
        /\ lastCommittedBatchSequences[subs[s].proc] = 2

(***************************************************************************)
(* Properties of the periodic rotation.                                    *)
(***************************************************************************)
\* C10: the timer callback rotates only when no rotation has happened yet or the
\* monotonic time elapsed since the last rotation (now - last_replace on uint64) is at
\* least mem_table_max_replace_time
C10_TimerRotatesOnlyWhenDue ==
    pc[Timer] \in {"lock", "swap", "signal"} =>
        \/ timerSaw.last = 0
        \/ GreaterEq64(Sub64(Uint64(timerSaw.now), Uint64(timerSaw.last)),
                       Uint64(MemTableMaxReplaceTime))

(***************************************************************************)
(* Properties of the iterators.                                            *)
(***************************************************************************)
InRange(it, k) ==
    /\ (it.rangeStart = NilKey \/ ~Less(k, it.rangeStart))
    /\ (it.rangeEnd = NilKey \/ Less(k, it.rangeEnd))

\* C7: an iterator created over the full range yields every key written so far, once,
\* with the value of the newest write, whatever the flush pipeline did meanwhile
C7_FullRangeIteratorSeesNewest ==
    \A r \in Readers :
        (/\ pc[r] = "open" /\ its[r].lastKey = NilKey
         /\ its[r].rangeStart = NilKey /\ its[r].rangeEnd = NilKey)
            => \A k \in Keys : MergedValue(its[r], k) = latest[k]

\* C8: a live iterator that has delivered key k and sees a rotation neither delivers a
\* key <= k again nor misses a key > k of the new memtable: its output is strictly
\* ascending and every entry of a memtable among its sources that lies in its range
\* after the last delivered key is within that source's iterator
C8_SpliceMissesNoKey ==
    \A r \in Readers :
        pc[r] \in {"open", "got"} =>
            /\ \A j \in 1..(Len(delivered[r]) - 1) :
                    Less(delivered[r][j].key, delivered[r][j + 1].key)
            /\ its[r].lastKey # NilKey =>
                    \A j \in 1..Len(its[r].srcs) : \A k \in Keys :
                        (/\ SourceData(its[r].srcs[j])[k] # NoVal
                         /\ InRange(its[r], k)
                         /\ Less(its[r].lastKey, k))
                            => k \in SourceKeys(its[r].srcs[j], its[r].rangeEnd)

(***************************************************************************)
(* Properties of Stop.                                                     *)
(***************************************************************************)
\* C11: a Stop that has closed the flush-signal channel eventually returns (unless the
\* process died), whatever state the engine is in, also after the registration loop
\* has aborted on a controller error
C11_StopEventuallyReturns ==
    (pc[Stopper] = "wait") ~> (pc[Stopper] = "stopped" \/ panicked)

\* C19: once Stop has closed the flush-signal channel no upload goroutine and no
\* rotation sends on it
C19_NoSendOnClosedChannel ==
    [][chanClosed => /\ \A m \in MtIds : ~FlushSignal(m)
                     /\ \A t \in Threads : ~ReplaceSignal(t)]_vars

(***************************************************************************)
(* Properties of the rotation.                                             *)
(***************************************************************************)
\* the rotations that have sent their flush signal and returned
CompletedRotations == Len(enqueued) - Cardinality({t \in Threads : pc[t] = "signal"})

\* C13: back-pressure: while no upload has completed, at most
\* MemtableFlushQueueMaxSize + 1 rotations complete; the next one blocks on mtFlushChan
C13_BackPressure ==
    stored = <<>> => CompletedRotations <= MemtableFlushQueueMaxSize + 1

\* C14: rotation is idempotent per memtable: every memtable is appended to the flush
\* queue at most once and signalled at most once, each append installs exactly one new
\* memtable, and a call for a memtable that is no longer active changes nothing
C14_RotationOncePerMemtable ==
    /\ NoDuplicates(enqueued)
    /\ NoDuplicates(signalled)
    /\ IsPrefix(signalled, enqueued)
    /\ Len(signalled) = CompletedRotations
    /\ memtable = Len(enqueued) + 1

\* two writers got "full" from the same memtable and both calls of replaceMemtable
\* have returned
C14_Witness ==
    /\ arg["w1"] # NilMt /\ arg["w1"] = arg["w2"] /\ arg["w1"] < memtable
    /\ pc["w1"] \notin {"lock", "swap", "signal"}
    /\ pc["w2"] \notin {"lock", "swap", "signal"}

\* C15: the active memtable is not in the flush queue and was never appended to it,
\* and a step that writes to a memtable writes to the active one only
C15_OnlyActiveMemtableWritten ==
    /\ [](~InQueue(memtable) /\ ~Occurs(enqueued, memtable))
    /\ [][\A m \in MtIds : mts'[m] # mts[m] => m = memtable /\ ~Occurs(enqueued, m)]_vars

\* a write has gone to the active memtable after an earlier memtable, which holds
\* a write too, was rotated out by a writer
C15_Witness ==
    /\ memtable > 1
    /\ mts[memtable].used > 0
    /\ mts[1].used > 0
    /\ InQueue(1)

(***************************************************************************)
(* Properties of the dedup row.                                            *)
(***************************************************************************)
\* the number of dedup rows of processor p among the entries of a batch
DedupRows(entries, p) ==
    Cardinality({j \in 1..Len(entries) : entries[j].key = createDedupKey(p)})

\* C16: with dedup-row insertion enabled, a batch that Write applies to a memtable
\* holds exactly one dedup row, however often the write was retried
C16_OneDedupRowPerAppliedBatch ==
    [][\A w \in Writers :
          (/\ ~DisableBatchSequenceInsertion
           /\ pc[w] = "write"
           /\ subs'[batch[w].sub].applied > subs[batch[w].sub].applied)
              => DedupRows(batch[w].entries, batch[w].proc) = 1]_vars

(***************************************************************************)
(* Properties of NewIterator.                                              *)
(***************************************************************************)
\* the group of the controller's answer that the source at slot j stands for
GroupAt(it, j) == it.ids[j - (Len(it.srcs) - Len(it.ids))]

\* C17: in the source list NewIterator built, the slot of a group of more than one
\* SSTable holds a chaining iterator over exactly the group's lazy SSTable iterators,
\* in the group's order, and the slot of a group of one holds its lazy SSTable iterator
C17_ChainOverItsGroup ==
    \A r \in Readers :
        pc[r] \in {"register", "open", "got"} =>
            \A j \in (Len(its[r].srcs) - Len(its[r].ids) + 1)..Len(its[r].srcs) :
                LET group == GroupAt(its[r], j)
                    src == its[r].srcs[j]
                IN  IF Len(group) = 1
                    THEN src = LazySources(group, its[r].rangeStart)[1]
                    ELSE src = NewChainingIterator(LazySources(group, its[r].rangeStart),
                                                   its[r].rangeStart)

\* C18: the registry of iterators is changed under the exclusive mtLock only: a reader
\* about to put its handle into the registry is the only one doing so, and no rotation
\* holds the lock at that time
C18_RegistryChangedExclusively ==
    \A r \in Readers :
        pc[r] = "register" =>
            /\ \A q \in Readers \ {r} : pc[q] # "register"
            /\ mtLockW = "none"

(***************************************************************************)
(* Properties of the run loop's index.                                     *)
(***************************************************************************)
\* C20: pos never exceeds the length of the flush queue, and when the run loop, after
\* its drain loop, goes on to take the entry at pos, pos is below the length of the
\* queue (or the loop has dropped a prefix and pos is at the end, where it takes
\* nothing)
C20_PosWithinQueue ==
    /\ loop.pos <= Len(mtFlushQueue)
    /\ (loop.pc = "drain" /\ ~HeadFlushed(mtFlushQueue, loop.i, loop.pos))
           => \/ loop.pos < Len(mtFlushQueue)
              \/ loop.i > 0 /\ loop.pos = Len(mtFlushQueue)

(***************************************************************************)
(* Properties of the recovery.                                             *)
(***************************************************************************)
\* the memtables and tables an iterator can read: the active memtable, those in the
\* flush queue and the registered ones
Readable ==
    {memtable} \cup {m \in MtIds : InQueue(m) \/ Occurs(registered, m)}

\* the positions in memtable m of the batches of processor p
BatchesOf(m, p) == {j \in 1..Len(mts[m].batches) : subs[mts[m].batches[j]].proc = p}

\* a batch of processor p was accepted and is readable
HasAccepted(p) == \E m \in Readable : BatchesOf(m, p) # {}

\* the sequence of the last batch accepted for processor p among the readable ones
LastAccepted(p) ==
    LET ms == {m \in Readable : BatchesOf(m, p) # {}}
        m  == CHOOSE x \in ms : \A y \in ms : y <= x
        j  == CHOOSE x \in BatchesOf(m, p) : \A y \in BatchesOf(m, p) : y <= x
    IN  subs[mts[m].batches[j]].seq

\* LoadLastBatchSequence of reader r returns in this step, having started from an
\* empty dedup map with a batch of its processor accepted and readable
LoadReturns(r) ==
    /\ pc[r] = "open" /\ pc'[r] = "loaded"
    /\ DOMAIN lastCommittedBatchSequences = {}
    /\ HasAccepted(loadFor[r])

\* the dedup map holds exactly sequence s for processor p, and a Write of (p, s) is
\* dropped as a duplicate
Recovered(seqs, p, s) ==
    /\ DOMAIN seqs = {p}
    /\ seqs[p] = s
    /\ ~checkDedupCache(seqs, p, s)

\* C12, as stated: LoadLastBatchSequence(p) on an empty dedup map sets the entry of p
\* to the sequence s of the last batch accepted for p and leaves the other processors
\* without entry, and a following Write of (p, s) is dropped as a duplicate
C12_RecoveryRoundTrip ==
    [][\A r \in Readers :
          LoadReturns(r) =>
              Recovered(lastCommittedBatchSequences', loadFor[r],
                        LastAccepted(loadFor[r]))]_vars

\* C12, for sequences other than -1: as stated, when the last batch accepted for p
\* was not written with the sequence -1, which is never checked
C12_RecoveryRoundTripChecked ==
    [][\A r \in Readers :
          (LoadReturns(r) /\ LastAccepted(loadFor[r]) # -1) =>
              Recovered(lastCommittedBatchSequences', loadFor[r],
                        LastAccepted(loadFor[r]))]_vars

\* after a restart LoadLastBatchSequence has restored the sequence of a batch that
\* was accepted before the restart into the empty dedup map
C12_Witness ==
    /\ Restarts = 1
    /\ \E k \in 1..Len(loaded) :
           /\ loaded[k].fresh /\ loaded[k].seq >= 1
           /\ \E j \in SubIds : /\ subs[j].proc = loaded[k].proc
                                 /\ subs[j].seq = loaded[k].seq
                                 /\ subs[j].applied = 1
           /\ lastCommittedBatchSequences[loaded[k].proc] = loaded[k].seq

(***************************************************************************)
(* C21: if Write returns an error for a batch, the dedup map entry of the  *)
(* batch's processor is the same as before the call, so that the batch can *)
(* be submitted again and is not dropped as a duplicate.  The entry before *)
(* the call is the one recorded when the call was made; one batch per      *)
(* processor is in flight, so no other call changes it meanwhile.          *)
(***************************************************************************)
C21_ErrorLeavesDedupEntry ==
    [][\A w \in Writers :
          DoWriteErr(w) =>
              Entry(lastCommittedBatchSequences', batch[w].proc)
                  = subs[batch[w].sub].before]_vars

(***************************************************************************)
(* C22: LoadLastBatchSequence leaves the registry of active iterators as   *)
(* it found it: once it has returned, the iterator it opened over the      *)
(* dedup range is no longer registered.                                    *)
(***************************************************************************)
C22_LoadDeregistersItsIterator ==
    \A r \in Readers : pc[r] = "loaded" => r \notin iterators

(***************************************************************************)
(* Column definitions as the parser can capture them, converted once.      *)
(***************************************************************************)
\* the parameter values the DECIMAL branch is tried with: around its limits
DecimalParams == {-1, 0, 1, 30, 31, 65, 66}

\* the parameter lists of the column definitions
ParamLists ==
    {<<>>} \cup {<<n>> : n \in -MaxParam..MaxParam}
           \cup {<<a, b>> : a \in DecimalParams, b \in DecimalParams}

InitColumn ==
    /\ InitShakti
    /\ columnDef \in [type : Types, params : ParamLists]
    /\ columnType = Pending

\* a caller converts the parsed column definition
Convert ==
    /\ columnType = Pending
    /\ columnType' = ToColumnType(columnDef)
    /\ UNCHANGED <<started, startStopLock, now, mtLastReplace, mtReplaceTimer, timerSaw,
                   memtable, mts, lastCommittedBatchSequences, batch, subs, latest,
                   mtLockW, mtLockR, mtFlushChan, chanClosed, stopWg, mtFlushQueue,
                   queueCap, mtFlushQueueLock, loop, uploads, registered, committed,
                   enqueued, signalled, stored, iterators, its, delivered, loadFor,
                   loaded, pc, arg, panicked, columnDef>>

NextColumn == Convert

SpecColumn == InitColumn /\ [][NextColumn]_vars

(***************************************************************************)
(* C23: ToColumnType for a TIMESTAMP column with one integer parameter n   *)
(* returns the timestamp type of precision n when 0 <= n <= 6 and the      *)
(* error "Timestamp fsp must be >= 0 and <= 6" for every other n; with no  *)
(* parameter the precision is DefaultFSP.                                  *)
(***************************************************************************)
C23_TimestampPrecisionChecked ==
    (columnDef.type = "TIMESTAMP" /\ columnType # Pending) =>
        /\ Len(columnDef.params) = 1 =>
               LET n == columnDef.params[1]
               IN  IF 0 <= n /\ n <= 6
                   THEN columnType = [err |-> "nil", ct |-> NewTimestampColumnType(n)]
                   ELSE columnType.err = "Timestamp fsp must be >= 0 and <= 6"
        /\ Len(columnDef.params) = 0 =>
               columnType = [err |-> "nil", ct |-> NewTimestampColumnType(DefaultFSP)]

====
